---- MODULE Spec2Model ----
(***************************************************************************)
(* Model of c_interop/c_lib_no_buildsystem/c_lib.c: the compiled unit      *)
(* exporting square(int32_t) and talk_from_c(), driven by a host caller    *)
(* that calls the two exports in any order.                                *)
(*                                                                         *)
(* int32_t arithmetic is modelled at its width.  The checker's integers    *)
(* are themselves 32 bits wide and reject overflow, so the 32-bit product  *)
(* is computed from 16-bit and 8-bit partial products, as a multiplier     *)
(* does.                                                                   *)
(***************************************************************************)
EXTENDS Integers, Sequences, FiniteSets, TLC

VARIABLES
    overflowMode,   \* what the build does on signed overflow (line 9 is UB)
    pc,             \* position of the single thread of control
    out,            \* stdout: the sequence of writes made by printf
    arg,            \* argument of the host's latest call of square
    ret,            \* value that call returned
    status,         \* "none" | "returned" | "trapped" for that call
    firstRet,       \* host's record: first value square returned per argument
    ncalls          \* number of calls the host has made

vars == <<overflowMode, pc, out, arg, ret, status, firstRet, ncalls>>

(***************************************************************************)
(* Bounds of the model.                                                    *)
(***************************************************************************)
MaxCalls == 3
MaxSmall == 3

(***************************************************************************)
(* Program constants.                                                      *)
(***************************************************************************)
MY_NUM == 4
INT32_MAX == 2147483647
INT32_MIN == (-INT32_MAX) - 1
Two8 == 256
Two15 == 32768
Two16 == 65536

Int32 == INT32_MIN..INT32_MAX

(***************************************************************************)
(* int32_t arithmetic of `x * x`.                                          *)
(***************************************************************************)

\* (u * v) mod 2^16 for 16-bit unsigned u, v, from 8-bit partial products.
MulLow16_dropHigh(u, v) ==
    ((u % Two8) * v) % Two16

MulLow16(u, v) ==
    ((u % Two8) * v + (((u \div Two8) * v) % Two8) * Two8) % Two16

\* Reinterpret the 32-bit pattern hi:lo (two 16-bit halves) as an int32_t.
ToInt32_badSign(hi, lo) ==
    IF hi >= Two15 \div 2
    THEN ((hi % Two15) - Two15) * Two16 + lo
    ELSE hi * Two16 + lo

ToInt32(hi, lo) ==
    IF hi >= Two15 THEN (hi - Two16) * Two16 + lo ELSE hi * Two16 + lo

\* The low 32 bits of a * b, as the multiply instruction produces them.
Mul32(a, b) ==
    LET al  == a % Two16
        ahu == (a \div Two16) % Two16
        bl  == b % Two16
        bhu == (b \div Two16) % Two16
        t0  == (al % Two8) * bl
        t1  == (al \div Two8) * bl
        s   == (t1 % Two8) * Two8 + t0
        lo  == s % Two16
        hi  == ((t1 \div Two8) + (s \div Two16)
                + MulLow16(ahu, bl) + MulLow16(al, bhu)) % Two16
    IN  ToInt32(hi, lo)

\* Does the mathematical product x * x leave the int32_t range?
Abs(x) == IF x < 0 THEN -x ELSE x

SquareOverflows(x) ==
    IF x = INT32_MIN THEN TRUE
    ELSE Abs(x) # 0 /\ Abs(x) > INT32_MAX \div Abs(x)

\* int32_t square(int32_t x) { return x * x; }
square_static(x) == Mul32(x, x) + ncalls

square(x) == Mul32(x, x)

\* Signed overflow is undefined: a build either wraps (the multiply
\* instruction) or traps (an overflow-checking build).
OverflowModes == {"wrap", "trap"}

SquareTraps(x) == overflowMode = "trap" /\ SquareOverflows(x)

(***************************************************************************)
(* printf's %d conversion and the two format strings of talk_from_c.       *)
(***************************************************************************)
Digit(d) == SubSeq("0123456789", d + 1, d + 1)

RECURSIVE DecNat(_)
DecNat(n) == IF n < 10 THEN Digit(n) ELSE DecNat(n \div 10) \o Digit(n % 10)

RECURSIVE DecNeg(_)
DecNeg(n) ==
    LET d == (10 - (n % 10)) % 10
        q == (n + d) \div 10
    IN  IF q = 0 THEN Digit(d) ELSE DecNeg(q) \o Digit(d)

FormatD(n) == IF n < 0 THEN "-" \o DecNeg(n) ELSE DecNat(n)

Greeting == "Hi! This is being printed from a C library!!\n"

SaysLine_swapped(a, b) ==
    "C says: square of " \o FormatD(b) \o " is " \o FormatD(a) \o "\n"

SaysLine(a, b) ==
    "C says: square of " \o FormatD(a) \o " is " \o FormatD(b) \o "\n"

(***************************************************************************)
(* The host: arguments it passes to square.                                *)
(***************************************************************************)
SquareInputs ==
    (-MaxSmall..MaxSmall)
    \cup {INT32_MIN, -Two16, -46341, -46340, 46340, 46341, Two16, INT32_MAX}

Init ==
    /\ overflowMode \in OverflowModes
    /\ pc = "main"
    /\ out = <<>>
    /\ arg = 0
    /\ ret = 0
    /\ status = "none"
    /\ firstRet = <<>>
    /\ ncalls = 0

\* The host calls square(x) and receives its value, or the build traps.
CallSquare(x) ==
    /\ pc = "main"
    /\ ncalls < MaxCalls
    /\ ncalls' = ncalls + 1
    /\ arg' = x
    /\ IF SquareTraps(x)
       THEN /\ pc' = "aborted"
            /\ status' = "trapped"
            /\ UNCHANGED <<ret, firstRet>>
       ELSE /\ pc' = "main"
            /\ status' = "returned"
            /\ ret' = square(x)
            /\ firstRet' = IF \E i \in 1..Len(firstRet) : firstRet[i][1] = x
                           THEN firstRet
                           ELSE Append(firstRet, <<x, square(x)>>)
    /\ UNCHANGED <<overflowMode, out>>

\* The host calls talk_from_c(): control enters at line 13.
CallTalk ==
    /\ pc = "main"
    /\ ncalls < MaxCalls
    /\ ncalls' = ncalls + 1
    /\ pc' = "L13"
    /\ UNCHANGED <<overflowMode, out, arg, ret, status, firstRet>>

\* printf("Hi! This is being printed from a C library!!\n");
Printf13 ==
    /\ pc = "L13"
    /\ out' = Append(out, Greeting)
    /\ pc' = "L14"
    /\ UNCHANGED <<overflowMode, arg, ret, status, firstRet, ncalls>>

\* printf("C says: square of %d is %d\n", MY_NUM, square(MY_NUM)); return.
Printf14 ==
    /\ pc = "L14"
    /\ IF SquareTraps(MY_NUM)
       THEN /\ pc' = "aborted"
            /\ UNCHANGED out
       ELSE /\ out' = Append(out, SaysLine(MY_NUM, square(MY_NUM)))
            /\ pc' = "main"
    /\ UNCHANGED <<overflowMode, arg, ret, status, firstRet, ncalls>>

Next ==
    \/ \E x \in SquareInputs : CallSquare(x)
    \/ CallTalk
    \/ Printf13
    \/ Printf14

Spec == Init /\ [][Next]_vars

TypeOK ==
    /\ overflowMode \in OverflowModes
    /\ pc \in {"main", "L13", "L14", "aborted"}
    /\ arg \in Int32
    /\ ret \in Int32
    /\ status \in {"none", "returned", "trapped"}
    /\ ncalls \in 0..MaxCalls
    /\ Len(out) <= 2 * MaxCalls

(***************************************************************************)
(* Properties.                                                             *)
(***************************************************************************)

\* C1: for every int32_t x with |x| <= 46340 (the arguments whose square
\* fits in an int32_t), square(x) returns exactly x * x.
C1_SquareExact ==
    (status = "returned" /\ arg >= -46340 /\ arg <= 46340) => ret = arg * arg

C1_Witness ==
    status = "returned" /\ arg = -46340 /\ ret = 2147395600

\* C2: every call of talk_from_c writes exactly two lines, first the
\* greeting and then "C says: square of 4 is 16", and then returns: entering
\* writes nothing, the step at line 13 appends the greeting and moves to
\* line 14, the step at line 14 appends the second line and returns.
C2_TalkEmitsTwoLines ==
    [][ /\ (pc = "main" /\ pc' = "L13") => out' = out
        /\ (pc = "L13" /\ pc' # pc) =>
              /\ pc' = "L14"
              /\ out' = Append(out,
                     "Hi! This is being printed from a C library!!\n")
        /\ (pc = "L14" /\ pc' # pc) =>
              /\ pc' = "main"
              /\ out' = Append(out, "C says: square of 4 is 16\n")
        /\ (pc \in {"L13", "L14"} /\ pc' = pc) => out' = out ]_vars

C2_Witness ==
    /\ pc = "main"
    /\ Len(out) = 2
    /\ out[1] = "Hi! This is being printed from a C library!!\n"
    /\ out[2] = "C says: square of 4 is 16\n"

\* C9: the unit holds no state.  Whatever calls came before, square returns
\* for an argument the value it returned for it the first time, and every
\* completed talk_from_c has written the same two lines as the first one;
\* square leaves stdout alone and talk_from_c leaves the host's view of
\* square (argument, value, record) alone.
C9_SameResult ==
    /\ status = "returned" =>
           \E i \in 1..Len(firstRet) : firstRet[i] = <<arg, ret>>
    /\ pc = "main" => \A i \in 1..Len(out) : out[i] = out[2 - (i % 2)]

C9_Frame ==
    /\ (pc = "main" /\ pc' \in {"main", "aborted"}) => out' = out
    /\ (pc \in {"L13", "L14"} \/ pc' = "L13") =>
           UNCHANGED <<arg, ret, status, firstRet>>

C10_NonNegative ==
    status = "returned" => (ret >= 0 /\ ret \in Int32)

\* C10 as amended: the value square(x) returns is in the int32_t range, and
\* it is non-negative when |x| <= 46340; beyond that the wrapped product can
\* be negative.
C10_InRange ==
    status = "returned" =>
        /\ ret \in Int32
        /\ (arg >= -46340 /\ arg <= 46340) => ret >= 0

C10_Witness ==
    status = "returned" /\ arg = 46341 /\ ret = -2147479015

====
